---- MODULE Spec2Model ----
(***************************************************************************)
(* StatementSnap batch processor (App component + geminiService).          *)
(*                                                                         *)
(* The state is the App component's React state, the locals of the one     *)
(* processStatements invocation that can be alive, the extraction calls    *)
(* in flight, the file reads started by onFileChange that have not yet     *)
(* resolved, and the millisecond clock read by extractTransactions.        *)
(* Every action is one run-to-completion segment of JavaScript: an event   *)
(* handler, or the continuation of an await / a promise callback.          *)
(*                                                                         *)
(* The source holds the App component in two behaviourally different       *)
(* revisions (lines 39-187 and 1305-1450 agree; lines 640-780 differ in    *)
(* reset, in the "clear" button and in the default error text).            *)
(* appVersion selects the revision and never changes.                      *)
(***************************************************************************)
EXTENDS Integers, Sequences, FiniteSets, Bags, TLC

\* ---------------------------------------------------------------- bounds
MaxFiles == 2      \* documents in the queue plus documents being read
MaxPending == 1    \* onFileChange batches whose Promise.all is unresolved
MaxClock == 1      \* largest reading of the millisecond clock

\* ------------------------------------------------------------- constants
IDLE == "IDLE"
UPLOADING == "UPLOADING"
ANALYZING == "ANALYZING"
SUCCESS == "SUCCESS"
ERROR == "ERROR"
ProcessingStatus == {IDLE, UPLOADING, ANALYZING, SUCCESS, ERROR}

\* JavaScript null of `error` and of `currentlyProcessingIdx`
NoError == "<null>"
NoIdx == -1
NoDownload == [content |-> <<>>, base |-> <<>>]   \* no export made yet
Undefined == "<undefined>"      \* a field the reply does not carry

AppVersions == {1, 2}

\* names a browser File can carry (File.name of a picked file is non-empty)
FileNames == {"a.pdf", "b.pdf"}

\* what the model returns in parsed.transactions: the schema's fields, and
\* possibly a sourceFile of its own ("" stands for: field absent)
RawFood == [amount |-> -40, category |-> "Food", sourceFile |-> ""]
RawSalary == [amount |-> 100, category |-> "Salary", sourceFile |-> "b.pdf"]
RawResults == {<<>>, <<RawSalary, RawFood>>, <<RawFood, RawSalary, RawFood>>}

\* err.message of a failed extraction ("" : an error without message)
ErrMessages == {"", "quota exceeded"}

VARIABLES
  appVersion,               \* which revision of App is running
  files,                    \* useState<FileData[]>: the queue (names)
  transactions,             \* useState<Transaction[]>: consolidated list
  status,                   \* useState<ProcessingStatus>
  error,                    \* useState<string | null>
  selectedView,             \* useState<string>: 'all' or a file name
  processedCount,           \* useState(0)
  currentlyProcessingIdx,   \* useState<number | null>
  runFiles,                 \* `files` as captured by the running closure
  i,                        \* loop variable of the running invocation
  allExtractedTransactions, \* local accumulator of the running invocation
  calls,                    \* extraction calls issued by the current run
  inFlight,                 \* positions in `calls` still awaiting a reply
  returned,                 \* lists the calls of the current run returned
  pendingReads,             \* onFileChange batches not yet appended
  now,                      \* latest reading of Date.now()
  preBatch,                 \* state seen by processStatements on entry
  activeRuns,               \* processStatements invocations not yet settled
  failedCalls,              \* positions in `calls` that were rejected
  downloaded                \* the file the last export handed to the browser

vars == <<appVersion, files, transactions, status, error, selectedView,
          processedCount, currentlyProcessingIdx, runFiles, i,
          allExtractedTransactions, calls, inFlight, returned,
          pendingReads, now, preBatch, activeRuns, failedCalls,
          downloaded>>

uiVars == <<files, transactions, status, error, selectedView,
            processedCount, currentlyProcessingIdx>>
runVars == <<runFiles, i, allExtractedTransactions, calls, inFlight,
             returned, preBatch, activeRuns, failedCalls>>

\* ---------------------------------------------------------------- helpers
RECURSIVE Flatten(_)
Flatten(ss) == IF ss = <<>> THEN <<>> ELSE Head(ss) \o Flatten(Tail(ss))

RECURSIVE SumLen(_)
SumLen(ss) == IF ss = <<>> THEN 0 ELSE Len(Head(ss)) + SumLen(Tail(ss))

RemoveAt(s, k) == [j \in 1..(Len(s) - 1) |-> IF j < k THEN s[j] ELSE s[j + 1]]

SeqsUpTo(S, n) == UNION {[1..m -> S] : m \in 1..n}

\* ---------------------------------------------------------- geminiService
\* extractTransactions: (parsed.transactions || []).map((t, index) =>
\*   ({...t, id: `${Date.now()}-${index}`})); the id text is kept as the
\* pair <<clock, index>> it is printed from (both are decimal naturals
\* around one '-', so the text and the pair determine each other).
extractTransactions(raw, clock) ==
  [k \in 1..Len(raw) |->
     [f \in (DOMAIN raw[k]) \cup {"id"} |->
        IF f = "id" THEN <<clock, k - 1>> ELSE raw[k][f]]]

\* ---------------------------------------------------------------- the App
\* variant: ({ sourceFile: files[i].name, ...t }) - the record's own
\* sourceFile, when it has one, wins over the document's name
taggedResults_OwnWins(result, name) ==
  [k \in 1..Len(result) |->
     IF result[k].sourceFile # "" THEN result[k]
     ELSE [result[k] EXCEPT !.sourceFile = name]]

\* result.map(t => ({ ...t, sourceFile: files[i].name }))
taggedResults(result, name) ==
  [k \in 1..Len(result) |-> [result[k] EXCEPT !.sourceFile = name]]

\* variant: setProcessedCount(i)
progressAfter_OffByOne(idx) == idx

\* setProcessedCount(i + 1)
progressAfter(idx) == idx + 1

\* for (...; i < files.length; ...)
loopContinues(idx, snapshot) == idx < Len(snapshot)

\* variant: the accumulator outlives the invocation and is never emptied
freshAccumulator_Kept == allExtractedTransactions

\* const allExtractedTransactions: Transaction[] = []
freshAccumulator == <<>>

\* catch: err.message || "<default text of the revision>"
DefaultError ==
  IF appVersion = 1
  THEN "Failed to extract data. Please ensure the files are valid PDFs or images."
  ELSE "Extraction failed. Ensure files are readable bank statements."
errorMessage(msg) == IF msg = "" THEN DefaultError ELSE msg

\* render guards
UploadVisible == status \in {IDLE, ERROR}
QueueVisible == UploadVisible /\ Len(files) > 0
DashboardVisible == status = SUCCESS

PendingTotal == SumLen(pendingReads)

Init ==
  /\ appVersion \in AppVersions
  /\ files = <<>>
  /\ transactions = <<>>
  /\ status = IDLE
  /\ error = NoError
  /\ selectedView = "all"
  /\ processedCount = 0
  /\ currentlyProcessingIdx = NoIdx
  /\ runFiles = <<>>
  /\ i = 0
  /\ allExtractedTransactions = <<>>
  /\ calls = <<>>
  /\ inFlight = {}
  /\ returned = <<>>
  /\ pendingReads = <<>>
  /\ now = 0
  /\ preBatch = [files |-> <<>>, processedCount |-> 0,
                 currentlyProcessingIdx |-> NoIdx]
  /\ activeRuns = 0
  /\ failedCalls = {}
  /\ downloaded = NoDownload

\* the user picks files: one FileReader per file, the queue is touched only
\* when Promise.all of the reads resolves
onFileChange(batch) ==
  /\ UploadVisible
  /\ Len(pendingReads) < MaxPending
  /\ Len(files) + PendingTotal + Len(batch) <= MaxFiles
  /\ pendingReads' = Append(pendingReads, batch)
  /\ UNCHANGED <<appVersion, downloaded, uiVars, runVars, now>>

\* Promise.all(newFiles).then(results => setFiles(prev => [...prev, ...results]))
filesLoaded(k) ==
  /\ k \in 1..Len(pendingReads)
  /\ files' = files \o pendingReads[k]
  /\ pendingReads' = RemoveAt(pendingReads, k)
  /\ UNCHANGED <<appVersion, downloaded, transactions, status, error, selectedView,
                 processedCount, currentlyProcessingIdx, runVars, now>>

removeFile(index) ==
  /\ QueueVisible
  /\ index \in 0..(Len(files) - 1)
  /\ files' = RemoveAt(files, index + 1)
  /\ UNCHANGED <<appVersion, downloaded, transactions, status, error, selectedView,
                 processedCount, currentlyProcessingIdx, runVars,
                 pendingReads, now>>

\* revision 1: clearFiles; revision 2: onClick={() => setFiles([])}
clearFiles ==
  /\ QueueVisible
  /\ files' = <<>>
  /\ error' = IF appVersion = 1 THEN NoError ELSE error
  /\ UNCHANGED <<appVersion, downloaded, transactions, status, selectedView,
                 processedCount, currentlyProcessingIdx, runVars,
                 pendingReads, now>>

\* the loop head: setCurrentlyProcessingIdx(i); extractTransactions([files[i]])
IssueCall(idx, snapshot, log, flying) ==
  /\ currentlyProcessingIdx' = idx
  /\ calls' = Append(log, [idx |-> idx, docs |-> <<snapshot[idx + 1]>>])
  /\ inFlight' = flying \cup {Len(log) + 1}

\* variant: all documents are sent at once (Promise.all over the queue)
processStatements_Parallel ==
  /\ QueueVisible
  /\ status' = ANALYZING
  /\ error' = NoError
  /\ processedCount' = 0
  /\ transactions' = <<>>
  /\ allExtractedTransactions' = <<>>
  /\ runFiles' = files
  /\ i' = 0
  /\ returned' = <<>>
  /\ failedCalls' = {}
  /\ activeRuns' = activeRuns + 1
  /\ preBatch' = [files |-> files, processedCount |-> processedCount,
                  currentlyProcessingIdx |-> currentlyProcessingIdx]
  /\ currentlyProcessingIdx' = 0
  /\ calls' = [k \in 1..Len(files) |-> [idx |-> k - 1, docs |-> <<files[k]>>]]
  /\ inFlight' = 1..Len(files)
  /\ UNCHANGED <<appVersion, downloaded, files, selectedView, pendingReads, now>>

\* variant: without the early return the loop body never runs for an
\* empty queue and the invocation goes straight to its success path
emptyInput_RunsAnyway ==
  /\ status' = SUCCESS
  /\ error' = NoError
  /\ processedCount' = 0
  /\ transactions' = <<>>
  /\ currentlyProcessingIdx' = NoIdx
  /\ selectedView' = "all"
  /\ allExtractedTransactions' = <<>>
  /\ runFiles' = files
  /\ i' = 0
  /\ calls' = <<>>
  /\ inFlight' = {}
  /\ returned' = <<>>
  /\ failedCalls' = {}
  /\ preBatch' = [files |-> files, processedCount |-> processedCount,
                  currentlyProcessingIdx |-> currentlyProcessingIdx]
  /\ UNCHANGED <<appVersion, downloaded, files, pendingReads, now, activeRuns>>

\* if (files.length === 0) return;
emptyInput == UNCHANGED vars

\* processStatements up to its first await
processStatementsCall ==
  IF Len(files) = 0
  THEN emptyInput
  ELSE /\ status' = ANALYZING
       /\ error' = NoError
       /\ processedCount' = 0
       /\ transactions' = <<>>
       /\ allExtractedTransactions' = freshAccumulator
       /\ runFiles' = files
       /\ i' = 0
       /\ returned' = <<>>
       /\ failedCalls' = {}
       /\ activeRuns' = activeRuns + 1
       /\ preBatch' = [files |-> files, processedCount |-> processedCount,
                       currentlyProcessingIdx |-> currentlyProcessingIdx]
       /\ IssueCall(0, files, <<>>, {})
       /\ UNCHANGED <<appVersion, downloaded, files, selectedView, pendingReads, now>>

\* "Begin Extraction", rendered with a non-empty queue only
processStatements ==
  /\ QueueVisible
  /\ processStatementsCall

\* the handler invoked in the upload view whatever the queue holds
callProcessStatements ==
  /\ UploadVisible
  /\ processStatementsCall

\* variant: setTransactions after every document, not only at the end
ExtractResolve_Publish(c, raw, t) ==
  /\ c \in inFlight
  /\ t >= now
  /\ now' = t
  /\ LET result == extractTransactions(raw, t)
         acc == allExtractedTransactions
                  \o taggedResults(result, runFiles[i + 1])
     IN /\ allExtractedTransactions' = acc
        /\ returned' = Append(returned, result)
        /\ processedCount' = progressAfter(i)
        /\ i' = i + 1
        /\ IF loopContinues(i + 1, runFiles)
           THEN /\ IssueCall(i + 1, runFiles, calls, inFlight \ {c})
                /\ transactions' = acc
                /\ UNCHANGED <<status, selectedView, activeRuns>>
           ELSE /\ transactions' = acc
                /\ status' = SUCCESS
                /\ currentlyProcessingIdx' = NoIdx
                /\ selectedView' = "all"
                /\ inFlight' = inFlight \ {c}
                /\ activeRuns' = activeRuns - 1
                /\ UNCHANGED calls
  /\ UNCHANGED <<appVersion, downloaded, files, error, runFiles, pendingReads,
                 preBatch, failedCalls>>

\* the await of call c resolves with the model's answer `raw`; Date.now()
\* reads t, which is not before any earlier reading
ExtractResolve(c, raw, t) ==
  /\ c \in inFlight
  /\ t >= now
  /\ now' = t
  /\ LET result == extractTransactions(raw, t)
         acc == allExtractedTransactions
                  \o taggedResults(result, runFiles[i + 1])
     IN /\ allExtractedTransactions' = acc
        /\ returned' = Append(returned, result)
        /\ processedCount' = progressAfter(i)
        /\ i' = i + 1
        /\ IF loopContinues(i + 1, runFiles)
           THEN /\ IssueCall(i + 1, runFiles, calls, inFlight \ {c})
                /\ UNCHANGED <<transactions, status, selectedView,
                               activeRuns>>
           ELSE /\ transactions' = acc
                /\ status' = SUCCESS
                /\ currentlyProcessingIdx' = NoIdx
                /\ selectedView' = "all"
                /\ inFlight' = inFlight \ {c}
                /\ activeRuns' = activeRuns - 1
                /\ UNCHANGED calls
  /\ UNCHANGED <<appVersion, downloaded, files, error, runFiles, pendingReads,
                 preBatch, failedCalls>>

\* variant: the catch block publishes what was extracted so far
ExtractReject_Salvage(c, msg) ==
  /\ c \in inFlight
  /\ error' = errorMessage(msg)
  /\ status' = ERROR
  /\ currentlyProcessingIdx' = NoIdx
  /\ transactions' = allExtractedTransactions
  /\ inFlight' = inFlight \ {c}
  /\ failedCalls' = failedCalls \cup {c}
  /\ activeRuns' = activeRuns - 1
  /\ UNCHANGED <<appVersion, downloaded, files, selectedView,
                 processedCount, runFiles, i, allExtractedTransactions,
                 calls, returned, pendingReads, now, preBatch>>

\* variant: a rejected call is issued again instead of ending the run
ExtractReject_Retry(c, msg) ==
  /\ c \in inFlight
  /\ failedCalls' = failedCalls \cup {c}
  /\ IssueCall(i, runFiles, calls, inFlight \ {c})
  /\ UNCHANGED <<appVersion, downloaded, files, transactions, status, error,
                 selectedView, processedCount, runFiles, i,
                 allExtractedTransactions, returned, pendingReads, now,
                 preBatch, activeRuns>>

\* variant: the catch block forgets setCurrentlyProcessingIdx(null)
ExtractReject_KeepMarker(c, msg) ==
  /\ c \in inFlight
  /\ error' = errorMessage(msg)
  /\ status' = ERROR
  /\ inFlight' = inFlight \ {c}
  /\ failedCalls' = failedCalls \cup {c}
  /\ activeRuns' = activeRuns - 1
  /\ UNCHANGED <<appVersion, downloaded, files, transactions, selectedView,
                 processedCount, currentlyProcessingIdx, runFiles, i,
                 allExtractedTransactions, calls, returned, pendingReads,
                 now, preBatch>>

\* variant: the rejection is swallowed, nothing is surfaced
ExtractReject_Swallow(c, msg) ==
  /\ c \in inFlight
  /\ inFlight' = inFlight \ {c}
  /\ failedCalls' = failedCalls \cup {c}
  /\ UNCHANGED <<appVersion, downloaded, files, transactions, status, error,
                 selectedView, processedCount, currentlyProcessingIdx,
                 runFiles, i, allExtractedTransactions, calls, returned,
                 pendingReads, now, preBatch, activeRuns>>

\* the await of call c rejects: the catch block
ExtractReject(c, msg) ==
  /\ c \in inFlight
  /\ error' = errorMessage(msg)
  /\ status' = ERROR
  /\ currentlyProcessingIdx' = NoIdx
  /\ inFlight' = inFlight \ {c}
  /\ failedCalls' = failedCalls \cup {c}
  /\ activeRuns' = activeRuns - 1
  /\ UNCHANGED <<appVersion, downloaded, files, transactions, selectedView,
                 processedCount, runFiles, i, allExtractedTransactions,
                 calls, returned, pendingReads, now, preBatch>>

\* view switcher of the dashboard
setSelectedView(view) ==
  /\ DashboardVisible
  /\ selectedView' = view
  /\ UNCHANGED <<appVersion, downloaded, files, transactions, status, error,
                 processedCount, currentlyProcessingIdx, runVars,
                 pendingReads, now>>

ViewChoices == {"all"} \cup {files[k] : k \in 1..Len(files)}

\* variant: reset without setSelectedView('all')
reset_KeepsScope ==
  /\ DashboardVisible
  /\ files' = <<>>
  /\ transactions' = <<>>
  /\ status' = IDLE
  /\ error' = NoError
  /\ processedCount' = IF appVersion = 1 THEN 0 ELSE processedCount
  /\ currentlyProcessingIdx' =
       IF appVersion = 1 THEN NoIdx ELSE currentlyProcessingIdx
  /\ UNCHANGED <<appVersion, downloaded, selectedView, runVars,
                 pendingReads, now>>

\* "Start New Batch"
reset ==
  /\ DashboardVisible
  /\ files' = <<>>
  /\ transactions' = <<>>
  /\ status' = IDLE
  /\ error' = NoError
  /\ selectedView' = "all"
  /\ processedCount' = IF appVersion = 1 THEN 0 ELSE processedCount
  /\ currentlyProcessingIdx' =
       IF appVersion = 1 THEN NoIdx ELSE currentlyProcessingIdx
  /\ UNCHANGED <<appVersion, downloaded, runVars, pendingReads, now>>

Next ==
  \/ \E batch \in SeqsUpTo(FileNames, MaxFiles) : onFileChange(batch)
  \/ \E k \in 1..MaxPending : filesLoaded(k)
  \/ \E index \in 0..(MaxFiles - 1) : removeFile(index)
  \/ clearFiles
  \/ processStatements
  \/ \E c \in 1..MaxFiles, raw \in RawResults, t \in 0..MaxClock :
       ExtractResolve(c, raw, t)
  \/ \E c \in 1..MaxFiles, msg \in ErrMessages : ExtractReject(c, msg)
  \/ \E view \in ViewChoices : setSelectedView(view)
  \/ reset

Spec == Init /\ [][Next]_vars

\* the same program with the handler also invoked directly
NextDirect == Next \/ callProcessStatements

SpecDirect == Init /\ [][NextDirect]_vars

\* an awaited extraction call returns a list or fails
CallSettles ==
  \/ \E c \in 1..MaxFiles, raw \in RawResults, t \in 0..MaxClock :
       ExtractResolve(c, raw, t)
  \/ \E c \in 1..MaxFiles, msg \in ErrMessages : ExtractReject(c, msg)

\* every extraction call eventually settles
FairSpec == Spec /\ WF_vars(CallSettles)

\* ------------------------------------------------- aggregation (useMemo)
COLORS ==
  <<"#4f46e5", "#f43f5e", "#10b981", "#f59e0b",
    "#06b6d4", "#8b5cf6", "#ec4899", "#64748b">>

\* variant: the scope is ignored, every tab shows the whole list
currentTransactionsOf_NoFilter(list, view) == list

\* useMemo: 'all' gives the list itself, anything else filters by sourceFile
currentTransactionsOf(list, view) ==
  IF view = "all" THEN list
  ELSE SelectSeq(list, LAMBDA t : t.sourceFile = view)

currentTransactions == currentTransactionsOf(transactions, selectedView)

\* .reduce((acc, t) => acc + t.amount, 0)
RECURSIVE reduceAmounts(_, _)
reduceAmounts(list, acc) ==
  IF list = <<>> THEN acc
  ELSE reduceAmounts(Tail(list), acc + Head(list).amount)

\* currentTransactions.filter(t => t.amount > 0).reduce(...)
incomeOf(list) ==
  reduceAmounts(SelectSeq(list, LAMBDA t : t.amount > 0), 0)

\* currentTransactions.filter(t => t.amount < 0).reduce(...): the raw sum
expensesOf(list) ==
  reduceAmounts(SelectSeq(list, LAMBDA t : t.amount < 0), 0)

MathAbs(x) == IF x < 0 THEN 0 - x ELSE x

\* variant: count: files.length
countOf_Queue(list) == Len(files)

\* count: currentTransactions.length
countOf(list) == Len(list)

\* variant: const totalExpenseAbs = expenses
totalExpenseAbsOf_Signed(expenses) == expenses

\* const totalExpenseAbs = Math.abs(expenses)
totalExpenseAbsOf(expenses) == MathAbs(expenses)

\* variant: net: income + totalExpenseAbs
netOf_Magnitude(income, expenses) == income + MathAbs(expenses)

\* net: income + expenses
netOf(income, expenses) == income + expenses

\* categoryMap is a plain object literal, kept here as its own properties
\* in Object.entries order (insertion order; the labels used are not
\* integer-like). A label that names a property inherited from
\* Object.prototype does not read as undefined: for "__proto__" the read
\* gives the prototype object, `(obj || 0) + absAmount` is a string, and
\* assigning a string to __proto__ is ignored, so no own property appears.
IgnoredKeys == {"__proto__"}

\* a property key is the string of the value: undefined reads and writes
\* the property named "undefined"
propertyKey(v) == IF v = Undefined THEN "undefined" ELSE v

HasKey(map, key) == \E j \in 1..Len(map) : map[j].name = key

\* categoryMap[t.category] = (categoryMap[t.category] || 0) + absAmount
categoryMapPut(map, key, absAmount) ==
  IF key \in IgnoredKeys THEN map
  ELSE IF HasKey(map, key)
       THEN [j \in 1..Len(map) |->
               IF map[j].name = key
               THEN [map[j] EXCEPT !.value = @ + absAmount]
               ELSE map[j]]
       ELSE Append(map, [name |-> key, value |-> 0 + absAmount])

\* currentTransactions.forEach(t => { if (t.amount < 0) { ... } })
RECURSIVE categoryMapOf(_, _)
categoryMapOf(list, map) ==
  IF list = <<>> THEN map
  ELSE categoryMapOf(
         Tail(list),
         IF Head(list).amount < 0
         THEN categoryMapPut(map, propertyKey(Head(list).category),
                             MathAbs(Head(list).amount))
         ELSE map)

\* totalExpenseAbs > 0 ? (value / totalExpenseAbs) * 100 : 0, kept as the
\* exact fraction num / den
percentageOf(value, totalExpenseAbs) ==
  IF totalExpenseAbs > 0
  THEN [num |-> value * 100, den |-> totalExpenseAbs]
  ELSE [num |-> 0, den |-> 1]

\* .map(([name, value], index) => ({ name, value, percentage, color }))
categoryEntries(map, totalExpenseAbs) ==
  [j \in 1..Len(map) |->
     [name |-> map[j].name,
      value |-> map[j].value,
      percentage |-> percentageOf(map[j].value, totalExpenseAbs),
      color |-> COLORS[((j - 1) % Len(COLORS)) + 1]]]

\* variant: (a, b) => a.value - b.value
sortCompare_Ascending(a, b) == a.value - b.value

\* (a, b) => b.value - a.value
sortCompare(a, b) == b.value - a.value

\* Array.prototype.sort is stable: x goes behind everything that does not
\* compare greater than it
RECURSIVE insertSorted(_, _)
insertSorted(sorted, x) ==
  IF sorted = <<>> THEN <<x>>
  ELSE IF sortCompare(Head(sorted), x) <= 0
       THEN <<Head(sorted)>> \o insertSorted(Tail(sorted), x)
       ELSE <<x>> \o sorted

RECURSIVE sortEntries(_, _)
sortEntries(entries, sorted) ==
  IF entries = <<>> THEN sorted
  ELSE sortEntries(Tail(entries), insertSorted(sorted, Head(entries)))

summaryOf(list) ==
  LET income == incomeOf(list)
      expenses == expensesOf(list)
      totalExpenseAbs == totalExpenseAbsOf(expenses)
  IN [count |-> countOf(list),
      income |-> income,
      expenses |-> totalExpenseAbs,
      net |-> netOf(income, expenses),
      categoryData |->
        sortEntries(categoryEntries(categoryMapOf(list, <<>>),
                                    totalExpenseAbs), <<>>)]

summary == summaryOf(currentTransactions)

\* --------------------------------------------------------- the dashboard
\* The dashboard after a successful run: the replies are drawn from lists
\* over DashRecords, MaxTx records in all, for a queue of two documents.
MaxTx == 4

DashRecords ==
  {[amount |-> 100, category |-> "Salary", sourceFile |-> ""],
   [amount |-> -40, category |-> "Food", sourceFile |-> ""],
   [amount |-> -10, category |-> "Food", sourceFile |-> ""],
   [amount |-> -20, category |-> "Travel", sourceFile |-> ""],
   [amount |-> 0, category |-> "Food", sourceFile |-> ""],
   [amount |-> -10, category |-> "__proto__", sourceFile |-> ""]}

DashQueues == {<<"a.pdf", "b.pdf">>, <<"all", "a.pdf">>}

\* every way to cut a list of at most MaxTx records into two replies
SplitAt(l, k) ==
  <<[j \in 1..k |-> l[j]], [j \in 1..(Len(l) - k) |-> l[k + j]]>>

\* the state in which processStatements leaves the App when the two calls
\* for queue q returned the two parts of l at clock readings 0 and 1,
\* while the file reads `reads` of later onFileChange events are unfinished
DashboardAfterReads(q, l, cut, reads) ==
    LET r == SplitAt(l, cut)
        results == [k \in 1..2 |-> extractTransactions(r[k], k - 1)]
        acc == Flatten([k \in 1..2 |-> taggedResults(results[k], q[k])])
    IN /\ appVersion = 1
       /\ files = q
       /\ transactions = acc
       /\ status = SUCCESS
       /\ error = NoError
       /\ selectedView = "all"
       /\ processedCount = progressAfter(1)
       /\ currentlyProcessingIdx = NoIdx
       /\ runFiles = q
       /\ i = 2
       /\ allExtractedTransactions = acc
       /\ calls = [k \in 1..2 |-> [idx |-> k - 1, docs |-> <<q[k]>>]]
       /\ inFlight = {}
       /\ returned = results
       /\ pendingReads = reads
       /\ now = 1
       /\ preBatch = [files |-> q, processedCount |-> 0,
                      currentlyProcessingIdx |-> NoIdx]
       /\ activeRuns = 0
       /\ failedCalls = {}
       /\ downloaded = NoDownload

DashboardAfter(q, l, cut) == DashboardAfterReads(q, l, cut, <<>>)

InitDashboard ==
  \E q \in DashQueues, n \in 0..MaxTx :
  \E l \in [1..n -> DashRecords], cut \in 0..n : DashboardAfter(q, l, cut)

NextDashboard == \E view \in ViewChoices : setSelectedView(view)

SpecDashboard == InitDashboard /\ [][NextDashboard]_vars

\* "Document Health Check": transactions.filter(...).reduce(...) per file
fileNet(name) ==
  reduceAmounts(SelectSeq(transactions, LAMBDA t : t.sourceFile = name), 0)

\* The dashboard for replies in which records may come without a category
\* (the reply is not validated against the schema): up to MaxCat records.
MaxCat == 3

CatRecords ==
  {[amount |-> -5, category |-> Undefined, sourceFile |-> ""],
   [amount |-> -7, category |-> "undefined", sourceFile |-> ""],
   [amount |-> -10, category |-> "Food", sourceFile |-> ""],
   [amount |-> 100, category |-> Undefined, sourceFile |-> ""]}

InitCategories ==
  \E n \in 0..MaxCat :
  \E l \in [1..n -> CatRecords], cut \in 0..n :
    DashboardAfter(<<"a.pdf", "b.pdf">>, l, cut)

SpecCategories == InitCategories /\ [][NextDashboard]_vars

\* The dashboard while a file picked before the run is still being read:
\* up to MaxLate records, and the read may finish at any moment.
MaxLate == 2

InitLateRead ==
  \E n \in 0..MaxLate :
  \E l \in [1..n -> DashRecords], cut \in 0..n, name \in FileNames :
    DashboardAfterReads(<<"a.pdf", "b.pdf">>, l, cut, <<(<<name>>)>>)

NextLateRead ==
  \/ \E view \in ViewChoices : setSelectedView(view)
  \/ \E k \in 1..MaxPending : filesLoaded(k)
  \/ reset

SpecLateRead == InitLateRead /\ [][NextLateRead]_vars

\* ------------------------------------------------------------ CSV export
\* Strings are atomic values here, so the characters of every string the
\* export handles are tabulated.
TextOf(str) ==
  CASE str = "" -> <<>>
    [] str = "all" -> <<"a", "l", "l">>
    [] str = "batch" -> <<"b", "a", "t", "c", "h">>
    [] str = "a.pdf" -> <<"a", ".", "p", "d", "f">>
    [] str = "b\".pdf" -> <<"b", "\"", ".", "p", "d", "f">>
    [] str = "05/01" -> <<"0", "5", "/", "0", "1">>
    [] str = "Rent" -> <<"R", "e", "n", "t">>
    [] str = "Pay \"A\", B" ->
         <<"P", "a", "y", " ", "\"", "A", "\"", ",", " ", "B">>
    [] str = "Food" -> <<"F", "o", "o", "d">>
    [] str = "Eat \"out\"" ->
         <<"E", "a", "t", " ", "\"", "o", "u", "t", "\"">>
    [] str = "x,y" -> <<"x", ",", "y">>
    [] str = "Date" -> <<"D", "a", "t", "e">>
    [] str = "Description" ->
         <<"D", "e", "s", "c", "r", "i", "p", "t", "i", "o", "n">>
    [] str = "Amount" -> <<"A", "m", "o", "u", "n", "t">>
    [] str = "Category" -> <<"C", "a", "t", "e", "g", "o", "r", "y">>
    [] str = "Notes" -> <<"N", "o", "t", "e", "s">>
    [] str = "Source" -> <<"S", "o", "u", "r", "c", "e">>

DecimalDigits == <<"0", "1", "2", "3", "4", "5", "6", "7", "8", "9">>

RECURSIVE digitsOf(_)
digitsOf(n) ==
  IF n < 10 THEN <<DecimalDigits[n + 1]>>
  ELSE digitsOf(n \div 10) \o <<DecimalDigits[(n % 10) + 1]>>

\* the text join() prints for a number (the amounts here are integers)
NumberText(n) == IF n < 0 THEN <<"-">> \o digitsOf(0 - n) ELSE digitsOf(n)

\* the text join() prints for an array element: '' for undefined
elementText(v) == IF v = Undefined THEN <<>> ELSE TextOf(v)

\* Array.prototype.join
RECURSIVE join(_, _)
join(parts, sep) ==
  IF parts = <<>> THEN <<>>
  ELSE IF Len(parts) = 1 THEN parts[1]
  ELSE parts[1] \o sep \o join(Tail(parts), sep)

\* .replace(/"/g, '""')
replaceQuotes(text) ==
  Flatten([k \in 1..Len(text) |->
             IF text[k] = "\"" THEN <<"\"", "\"">> ELSE <<text[k]>>])

\* `"${...}"`
wrapped(text) == <<"\"">> \o text \o <<"\"">>

\* (t.notes || '')
notesOrEmpty(t) == IF t.notes = Undefined THEN "" ELSE t.notes

headers == <<"Date", "Description", "Amount", "Category", "Notes", "Source">>

\* variant: the amount is emitted like the text fields, `"${t.amount}"`
csvFields_AmountQuoted(t) ==
  <<elementText(t.date),
    wrapped(replaceQuotes(TextOf(t.description))),
    wrapped(NumberText(t.amount)),
    elementText(t.category),
    wrapped(replaceQuotes(TextOf(notesOrEmpty(t)))),
    wrapped(TextOf(t.sourceFile))>>

\* the array of one row before its join(',')
csvFields(t) ==
  <<elementText(t.date),
    wrapped(replaceQuotes(TextOf(t.description))),
    NumberText(t.amount),
    elementText(t.category),
    wrapped(replaceQuotes(TextOf(notesOrEmpty(t)))),
    wrapped(TextOf(t.sourceFile))>>

csvContentOf(list) ==
  join(<<join([k \in 1..Len(headers) |-> TextOf(headers[k])], <<",">>)>>
         \o [k \in 1..Len(list) |-> join(csvFields(list[k]), <<",">>)],
       <<"\n">>)

\* selectedView.split('.')[0]
RECURSIVE beforeDot(_)
beforeDot(text) ==
  IF text = <<>> \/ Head(text) = "." THEN <<>>
  ELSE <<Head(text)>> \o beforeDot(Tail(text))

\* link.download without its fixed suffix; App 1 adds the day of the clock
downloadBase(view) ==
  IF view = "all" THEN TextOf("batch") ELSE beforeDot(TextOf(view))

\* "Export CSV"
exportToCSV ==
  /\ DashboardVisible
  /\ IF Len(currentTransactions) = 0
     THEN UNCHANGED vars
     ELSE /\ downloaded' = [content |-> csvContentOf(currentTransactions),
                           base |-> downloadBase(selectedView)]
          /\ UNCHANGED <<appVersion, uiVars, runVars, pendingReads, now>>

\* The dashboard after a run over two documents whose replies carry the
\* text fields: up to MaxRows records over ExportRecords.
MaxRows == 2

ExportRecords ==
  {[date |-> "05/01", description |-> "Rent", amount |-> -40,
    category |-> "Food", notes |-> Undefined, sourceFile |-> ""],
   [date |-> "05/01", description |-> "Pay \"A\", B", amount |-> 100,
    category |-> "Food", notes |-> "x,y", sourceFile |-> ""],
   [date |-> "05/01", description |-> "Rent", amount |-> -7,
    category |-> "Eat \"out\"", notes |-> "", sourceFile |-> ""]}

ExportQueues == {<<"a.pdf", "b\".pdf">>}

InitExport ==
  \E q \in ExportQueues, n \in 0..MaxRows :
  \E l \in [1..n -> ExportRecords], cut \in 0..n : DashboardAfter(q, l, cut)

NextExport ==
  \/ \E view \in ViewChoices : setSelectedView(view)
  \/ exportToCSV

SpecExport == InitExport /\ [][NextExport]_vars

\* ------------------------------------------------------------ properties
Range(s) == {s[k] : k \in 1..Len(s)}
Count(r, s) == Cardinality({k \in 1..Len(s) : s[k] = r})

\* what the current run's replies amount to: reply k, in the order it was
\* given, every record carrying the name of document k
Produced ==
  Flatten([k \in 1..Len(returned) |->
             [j \in 1..Len(returned[k]) |->
                [id |-> returned[k][j].id,
                 amount |-> returned[k][j].amount,
                 category |-> returned[k][j].category,
                 sourceFile |-> runFiles[k]]]])

\* a step in which an awaited call is consumed, i.e. a step of the run
RunStep == \E c \in inFlight : c \notin inFlight'

\* C1: once the extraction call of some document k has failed, the
\* consolidated list is empty (nothing of documents 0..k-1 is exposed) and
\* status is ERROR, until another run is started.
C1_FailFastNoPartialResult ==
  failedCalls # {} => transactions = <<>> /\ status = ERROR

\* a run failed at its second document after the first one had yielded
\* records, and nothing is shown
C1_Witness ==
  /\ failedCalls = {2}
  /\ allExtractedTransactions # <<>>
  /\ transactions = <<>>
  /\ status = ERROR

\* C2: when every call of the run succeeded, the consolidated list is the
\* concatenation, in submission order, of the lists the collaborator
\* returned, in the collaborator's order, every record's sourceFile being
\* the name of its document and its other fields untouched.
C2_SuccessPostcondition ==
  status = SUCCESS =>
    /\ Len(returned) = Len(runFiles)
    /\ transactions = Produced

\* A yielded 2 records and B yielded 3 (one of them with a sourceFile of
\* the collaborator's own): 5 records, the first 2 tagged A, the rest B
C2_Witness ==
  /\ status = SUCCESS
  /\ runFiles = <<"a.pdf", "b.pdf">>
  /\ Len(returned[1]) = 2 /\ Len(returned[2]) = 3
  /\ \E k \in 1..2 : returned[1][k].sourceFile = "b.pdf"
  /\ Len(transactions) = 5
  /\ \A k \in 1..2 : transactions[k].sourceFile = "a.pdf"
  /\ \A k \in 3..5 : transactions[k].sourceFile = "b.pdf"

\* C3: at most one extraction call is in flight; call number c is for
\* document c-1 of the submitted queue and carries exactly that document;
\* a call is issued only when all earlier calls have returned a list.
C3_StrictlySequential ==
  /\ Cardinality(inFlight) <= 1
  /\ inFlight \subseteq {Len(calls)}
  /\ Len(calls) <= Len(returned) + 1
  /\ \A c \in 1..Len(calls) :
       calls[c].idx = c - 1 /\ calls[c].docs = <<runFiles[c]>>

\* the second document's call is in flight after the first one returned
C3_Witness ==
  /\ status = ANALYZING
  /\ inFlight = {2}
  /\ Len(returned) = 1
  /\ calls[2].docs = <<runFiles[2]>>

\* C4: a run has at most one failed call; after the call of document k
\* failed, that call is the last one issued (k+1 calls, no retry, nothing
\* for k+1..N-1), nothing is in flight and the run is over with status
\* ERROR; a run that ends in SUCCESS issued exactly N calls.
C4_AbandonOnFirstFailure ==
  /\ Cardinality(failedCalls) <= 1
  /\ \A c \in failedCalls :
       /\ Len(calls) = c
       /\ c = processedCount + 1
       /\ inFlight = {}
       /\ activeRuns = 0
       /\ status = ERROR
  /\ status = SUCCESS => Len(calls) = Len(runFiles) /\ failedCalls = {}

\* the first of two documents failed: one call was made, none for the second
C4_Witness ==
  /\ Len(runFiles) = 2
  /\ failedCalls = {1}
  /\ Len(calls) = 1
  /\ status = ERROR

\* C5: processedCount is 0 when a run starts; during the run it never
\* decreases, it grows by exactly one with every call that returns a list
\* and only then, it never exceeds the number of submitted documents, and
\* it equals that number when the run ends in SUCCESS.
C5_CompletedCountProgress ==
  [][/\ (activeRuns' > activeRuns => processedCount' = 0)
     /\ (status = ANALYZING =>
           /\ processedCount' >= processedCount
           /\ processedCount' <= Len(runFiles)
           /\ (Len(returned') = Len(returned) + 1
                 <=> processedCount' = processedCount + 1)
           /\ (Len(returned') = Len(returned)
                 <=> processedCount' = processedCount)
           /\ (status' = SUCCESS => processedCount' = Len(runFiles)))]_vars

\* both documents of a run are done and the run ended in SUCCESS
C5_Witness ==
  /\ status = SUCCESS
  /\ Len(runFiles) = 2
  /\ processedCount = 2

\* C6: after a failed run everything is as before the run, plus an error
\* message: no transactions, the queue, the completed count and the
\* in-progress marker as processStatements found them.
C6_BackToPreBatchState ==
  [][(failedCalls = {} /\ failedCalls' # {}) =>
       /\ transactions' = <<>>
       /\ files' = preBatch'.files
       /\ processedCount' = preBatch'.processedCount
       /\ currentlyProcessingIdx' = preBatch'.currentlyProcessingIdx
       /\ error' \notin {NoError, ""}]_vars

\* C7: currentlyProcessingIdx is null whenever no run is active (at the
\* start, after SUCCESS, after ERROR, after reset), and while the call of
\* document i is awaited it is i.
C7_InProgressMarker ==
  /\ status # ANALYZING => currentlyProcessingIdx = NoIdx
  /\ activeRuns = 0 => currentlyProcessingIdx = NoIdx
  /\ \A c \in inFlight :
       currentlyProcessingIdx = calls[c].idx /\ currentlyProcessingIdx = i

\* a run failed while its second document was marked as in progress
C7_Witness ==
  /\ failedCalls = {2}
  /\ status = ERROR
  /\ currentlyProcessingIdx = NoIdx

\* C8: at most one run is active; while status is ANALYZING no run is
\* started, only steps of the run change transactions, processedCount and
\* currentlyProcessingIdx, and neither reset nor a scope change nor a
\* change of the file queue happens.
C8_NoConcurrentWriters ==
  [][/\ activeRuns' <= 1
     /\ (status = ANALYZING =>
           /\ activeRuns' <= activeRuns
           /\ (<<transactions, processedCount, currentlyProcessingIdx>>'
                 # <<transactions, processedCount, currentlyProcessingIdx>>
               => RunStep)
           /\ (selectedView' # selectedView => RunStep)
           /\ status' # IDLE
           /\ Len(pendingReads') <= Len(pendingReads)
           /\ files' = files)]_vars

\* C9: the consolidated list never holds a record more often than the
\* most recently started run produced it, and it is empty while a run is
\* active: nothing of an earlier run is merged into it or left in it.
C9_FullReplacementPerRun ==
  /\ \A r \in Range(transactions) :
       Count(r, transactions) <= Count(r, Produced)
  /\ activeRuns > 0 => transactions = <<>>

\* a run that failed after extracting from its first document was
\* followed by a run that succeeded
C9_Witness ==
  /\ appVersion = 1
  /\ status = SUCCESS
  /\ preBatch.processedCount >= 1
  /\ transactions # <<>>

\* C10: every record of the consolidated list has a non-empty sourceFile
\* that is the name of exactly one document of the queue.
C10_SourceFileNamesOneDocument ==
  \A k \in 1..Len(transactions) :
    /\ transactions[k].sourceFile # ""
    /\ Cardinality({j \in 1..Len(files) :
                      files[j] = transactions[k].sourceFile}) = 1

\* C11: in the consolidated list of a successful run no two transactions
\* share an id, whatever the clock read when the calls returned.
C11_IdsUniqueAcrossBatch ==
  status = SUCCESS =>
    \A j, k \in 1..Len(transactions) :
      j # k => transactions[j].id # transactions[k].id

RECURSIVE SumSeq(_)
SumSeq(ns) == IF ns = <<>> THEN 0 ELSE Head(ns) + SumSeq(Tail(ns))

\* the records the run extracted from document d of its queue
DocRecords(d) ==
  [j \in 1..Len(returned[d]) |->
     [id |-> returned[d][j].id,
      amount |-> returned[d][j].amount,
      category |-> returned[d][j].category,
      sourceFile |-> runFiles[d]]]

\* C12: with scope 'all documents' the scoped list is the consolidated
\* list; with the scope set to document d of the queue it is exactly the
\* records extracted from d, whatever d is called.
C12_ScopeSelection ==
  /\ (selectedView = "all" /\ \A d \in 1..Len(files) : files[d] # "all")
       => currentTransactions = transactions
  /\ \A d \in 1..Len(files) :
       selectedView = files[d] => currentTransactions = DocRecords(d)

\* C15: net is the sum of the amounts of all records of the scoped list
\* (0 for the empty list), and it is income - expenses.
C15_NetIsSumOfAmounts ==
  LET list == currentTransactions
      s == summaryOf(list)
  IN /\ s.net = SumSeq([k \in 1..Len(list) |-> list[k].amount])
     /\ s.net = s.income - s.expenses

\* one document's view with a credit, a debit and a zero-amount record
C15_Witness ==
  /\ selectedView = "b.pdf"
  /\ \E j, k, m \in 1..Len(currentTransactions) :
       /\ currentTransactions[j].amount > 0
       /\ currentTransactions[k].amount < 0
       /\ currentTransactions[m].amount = 0
  /\ summary.net = 60

\* C16: income is the sum of the amounts > 0, expenses is the magnitude of
\* the sum of the amounts < 0, both are >= 0, count is the length of the
\* scoped list, and taking the zero-amount records out of the list changes
\* neither income nor expenses.
C16_IncomeExpensesCount ==
  LET list == currentTransactions
      nonZero == SelectSeq(list, LAMBDA t : t.amount # 0)
      s == summaryOf(list)
      sNonZero == summaryOf(nonZero)
  IN /\ s.income =
          SumSeq([k \in 1..Len(list) |->
                    IF list[k].amount > 0 THEN list[k].amount ELSE 0])
     /\ s.expenses =
          SumSeq([k \in 1..Len(list) |->
                    IF list[k].amount < 0 THEN 0 - list[k].amount ELSE 0])
     /\ s.income >= 0
     /\ s.expenses >= 0
     /\ s.count = Len(list)
     /\ sNonZero.income = s.income
     /\ sNonZero.expenses = s.expenses

\* two debits, a credit and a zero-amount record: count 4, expenses 50
C16_Witness ==
  /\ summary.count = 4
  /\ summary.income = 100
  /\ summary.expenses = 50
  /\ \E k \in 1..Len(currentTransactions) :
       currentTransactions[k].amount = 0

\* C17: the values of the category entries add up to expenses.
C17_CategoriesAccountForExpenses ==
  SumSeq([j \in 1..Len(summary.categoryData) |->
            summary.categoryData[j].value]) = summary.expenses

\* C18: categoryData has exactly one entry per category label of the
\* records with amount < 0, its value is the sum of their magnitudes;
\* records with amount >= 0 create or change no entry.
C18_PerCategoryValue ==
  LET list == currentTransactions
      cd == summary.categoryData
      labels == {list[k].category : k \in {m \in 1..Len(list) :
                                             list[m].amount < 0}}
  IN /\ Len(cd) = Cardinality(labels)
     /\ {cd[j].name : j \in 1..Len(cd)} = labels
     /\ \A j \in 1..Len(cd) :
          cd[j].value =
            SumSeq([k \in 1..Len(list) |->
                      IF list[k].amount < 0 /\ list[k].category = cd[j].name
                      THEN 0 - list[k].amount ELSE 0])

C20_Percentages ==
  LET cd == summary.categoryData
      total == summary.expenses
  IN /\ \A j \in 1..Len(cd) :
          /\ cd[j].percentage.den > 0
          /\ total > 0 =>
               cd[j].percentage.num * total
                 = cd[j].value * 100 * cd[j].percentage.den
          /\ total = 0 => cd[j].percentage.num = 0
     /\ total > 0 =>
          SumSeq([j \in 1..Len(cd) |->
                    cd[j].percentage.num * (total \div cd[j].percentage.den)])
            = 100 * total

\* C13: with an empty queue processStatements issues no call and changes
\* neither status, error, transactions, processedCount,
\* currentlyProcessingIdx nor selectedView (an earlier error stays).
C13_EmptyInputIsNoOp ==
  [][(UploadVisible /\ Len(files) = 0) =>
       UNCHANGED <<status, error, transactions, processedCount,
                   currentlyProcessingIdx, selectedView, calls, inFlight>>]_vars

\* the queue was emptied after a failed run: the message is still shown
C13_Witness ==
  /\ files = <<>>
  /\ status = ERROR
  /\ error # NoError

\* C14: when every call settles, a run that entered ANALYZING reaches
\* SUCCESS or ERROR; ANALYZING is left only to SUCCESS, with all documents
\* processed, or to ERROR, with a failed call.
C14_RunTerminates ==
  /\ (status = ANALYZING) ~> (status \in {SUCCESS, ERROR})
  /\ [][status = ANALYZING =>
          /\ status' \in {ANALYZING, SUCCESS, ERROR}
          /\ status' = SUCCESS => processedCount' = Len(runFiles)
          /\ status' = ERROR => failedCalls' # {}]_vars

\* a run over two documents has ended after both calls settled
C14_Witness ==
  /\ activeRuns = 0
  /\ Len(calls) = 2
  /\ Len(returned) + Cardinality(failedCalls) = 2
  /\ status \in {SUCCESS, ERROR}

\* splitting a text at every occurrence of one character
splitText(text, ch) ==
  LET seps == {k \in 1..Len(text) : text[k] = ch}
      count == Cardinality(seps)
      sepAt(n) == CHOOSE k \in seps : Cardinality({j \in seps : j <= k}) = n
      first(n) == IF n = 1 THEN 1 ELSE sepAt(n - 1) + 1
      last(n) == IF n = count + 1 THEN Len(text) ELSE sepAt(n) - 1
  IN [n \in 1..(count + 1) |-> SubSeq(text, first(n), last(n))]

\* reading one CSV row: a field that opens with a quote runs to the next
\* quote that is not doubled, a doubled quote stands for one quote
RECURSIVE parseRow(_, _, _, _)
parseRow(text, cur, inQuotes, acc) ==
  IF text = <<>> THEN Append(acc, cur)
  ELSE IF inQuotes
       THEN IF Head(text) = "\""
            THEN IF Len(text) > 1 /\ text[2] = "\""
                 THEN parseRow(Tail(Tail(text)), Append(cur, "\""), TRUE, acc)
                 ELSE parseRow(Tail(text), cur, FALSE, acc)
            ELSE parseRow(Tail(text), Append(cur, Head(text)), TRUE, acc)
       ELSE IF Head(text) = ","
            THEN parseRow(Tail(text), <<>>, FALSE, Append(acc, cur))
            ELSE IF Head(text) = "\"" /\ cur = <<>>
                 THEN parseRow(Tail(text), cur, TRUE, acc)
                 ELSE parseRow(Tail(text), Append(cur, Head(text)), FALSE, acc)

HeaderLine ==
  <<"D", "a", "t", "e", ",",
    "D", "e", "s", "c", "r", "i", "p", "t", "i", "o", "n", ",",
    "A", "m", "o", "u", "n", "t", ",",
    "C", "a", "t", "e", "g", "o", "r", "y", ",",
    "N", "o", "t", "e", "s", ",",
    "S", "o", "u", "r", "c", "e">>

HasQuote(text) == \E k \in 1..Len(text) : text[k] = "\""

\* the five string fields of a record, in header order around the amount
StringFields(t) ==
  <<elementText(t.date), TextOf(t.description), TextOf(t.category),
    TextOf(notesOrEmpty(t)), TextOf(t.sourceFile)>>

\* C21: an export is the header line followed by one line per record of
\* the scoped list, in list order, each made of the six fields in header
\* order, the third being the bare signed number.
C21_CsvRows ==
  [][downloaded' # downloaded =>
       LET list == currentTransactions
           lines == splitText(downloaded'.content, "\n")
       IN /\ Len(lines) = Len(list) + 1
          /\ lines[1] = HeaderLine
          /\ \A k \in 1..Len(list) :
               LET t == list[k]
                   emitted == csvFields(t)
               IN /\ ~HasQuote(NumberText(t.amount))
                  /\ lines[k + 1] =
                       elementText(t.date) \o <<",">> \o emitted[2]
                         \o <<",">> \o NumberText(t.amount)
                         \o <<",">> \o elementText(t.category)
                         \o <<",">> \o emitted[5] \o <<",">> \o emitted[6]]_vars

\* one document's two records were exported
C21_Witness ==
  /\ downloaded # NoDownload
  /\ selectedView = "a.pdf"
  /\ Len(currentTransactions) = 2
  /\ downloaded.content = csvContentOf(currentTransactions)

\* C22: in every exported row each string field that holds a double quote
\* is wrapped in quotes with the quote doubled, and the row reads back as
\* six fields with the original values.
C22_CsvQuoting ==
  [][downloaded' # downloaded =>
       LET list == currentTransactions
           lines == splitText(downloaded'.content, "\n")
       IN \A k \in 1..Len(list) :
            LET t == list[k]
                strings == StringFields(t)
                emitted == csvFields(t)
                position == <<1, 2, 4, 5, 6>>
            IN /\ \A j \in 1..5 :
                    HasQuote(strings[j]) =>
                      emitted[position[j]] = wrapped(replaceQuotes(strings[j]))
               /\ parseRow(lines[k + 1], <<>>, FALSE, <<>>) =
                    <<strings[1], strings[2], NumberText(t.amount),
                      strings[3], strings[4], strings[5]>>]_vars

\* C23: a reset leaves the queue and the list empty, status IDLE, no
\* error, scope 'all', completed count 0 and no in-progress marker.
C23_ResetEqualsInitial ==
  [][(status = SUCCESS /\ status' = IDLE) =>
       /\ files' = <<>>
       /\ transactions' = <<>>
       /\ error' = NoError
       /\ selectedView' = "all"
       /\ processedCount' = 0
       /\ currentlyProcessingIdx' = NoIdx]_vars

\* C27: the consolidated list is non-empty only in SUCCESS.
C27_ResultsOnlyAfterSuccess ==
  (transactions # <<>>) => (status = SUCCESS)

\* a run holds records of a finished document and shows none of them
C27_Witness ==
  /\ status = ANALYZING
  /\ allExtractedTransactions # <<>>
  /\ transactions = <<>>

\* C28: in SUCCESS the queue is the queue the run processed, and
\* processedCount is its length.
C28_QueueIsTheProcessedQueue ==
  (status = SUCCESS) =>
    /\ files = runFiles
    /\ processedCount = Len(files)
    /\ Len(returned) = Len(files)

\* C30: an error message exists only in ERROR and never during a run,
\* status is never UPLOADING, scope is 'all' outside SUCCESS and 'all' or
\* the name of a queued file in SUCCESS, and a run ends with scope 'all'.
C30_StatusErrorScope ==
  /\ [](/\ (error # NoError => status = ERROR)
        /\ status # UPLOADING
        /\ (status # SUCCESS => selectedView = "all")
        /\ (status = SUCCESS => selectedView \in {"all"} \cup Range(files)))
  /\ [][(status = ANALYZING /\ status' = SUCCESS) =>
          selectedView' = "all"]_vars
  /\ [][(status # ANALYZING /\ status' = ANALYZING) =>
          error' = NoError]_vars

\* a run restarted from ERROR, and later one document's view in SUCCESS
C30_Witness ==
  /\ status = SUCCESS
  /\ selectedView \in Range(files)
  /\ Len(calls) = 2

\* C24: after the sort the entry at position j carries the j-th colour of
\* the palette, cycling through its 8 colours.
C24_ColoursFollowSortedOrder ==
  LET data == summary.categoryData
  IN \A j \in 1..Len(data) : data[j].color = COLORS[((j - 1) % 8) + 1]

C26_MissingCategoryBucket ==
  LET list == currentTransactions
      s == summaryOf(list)
      debits == SelectSeq(list, LAMBDA t : t.amount < 0)
      labels == {debits[k].category : k \in 1..Len(debits)} \ {Undefined}
      sumOf(c) ==
        SumSeq([k \in 1..Len(debits) |->
                  IF debits[k].category = c THEN 0 - debits[k].amount ELSE 0])
      entriesOf(v) ==
        {j \in 1..Len(s.categoryData) : s.categoryData[j].value = v}
  IN /\ \A c \in labels :
          \E j \in 1..Len(s.categoryData) :
            /\ s.categoryData[j].name = c
            /\ s.categoryData[j].value = sumOf(c)
     /\ (\E k \in 1..Len(debits) : debits[k].category = Undefined) =>
          /\ Len(s.categoryData) = Cardinality(labels) + 1
          /\ \E j \in 1..Len(s.categoryData) :
               /\ s.categoryData[j].name \notin labels
               /\ s.categoryData[j].value = sumOf(Undefined)
     /\ SumSeq([j \in 1..Len(s.categoryData) |-> s.categoryData[j].value])
          = s.expenses

\* C29: for a queue of distinct names other than 'all', count, income,
\* expenses and net of the documents add up to those of the batch, the
\* per-file nets add up to the batch net, and every record of the list is
\* in the scoped list of exactly one document.
C29_PerDocumentSummariesAddUp ==
  LET names == Range(files)
      docs == 1..Len(files)
      scoped == [k \in docs |-> currentTransactionsOf(transactions, files[k])]
      per == [k \in docs |-> summaryOf(scoped[k])]
      batch == summaryOf(currentTransactionsOf(transactions, "all"))
  IN (Cardinality(names) = Len(files) /\ "all" \notin names) =>
       /\ SumSeq([k \in docs |-> per[k].count]) = batch.count
       /\ SumSeq([k \in docs |-> per[k].income]) = batch.income
       /\ SumSeq([k \in docs |-> per[k].expenses]) = batch.expenses
       /\ SumSeq([k \in docs |-> per[k].net]) = batch.net
       /\ SumSeq([k \in docs |-> fileNet(files[k])]) = batch.net
       /\ \A j \in 1..Len(transactions) :
            Cardinality({k \in docs :
              \E m \in 1..Len(scoped[k]) : scoped[k][m] = transactions[j]}) = 1

\* both documents contributed records, credits and debits among them
C29_Witness ==
  /\ files = <<"a.pdf", "b.pdf">>
  /\ \A k \in 1..2 : currentTransactionsOf(transactions, files[k]) # <<>>
  /\ summaryOf(transactions).income > 0
  /\ summaryOf(transactions).expenses > 0
  /\ fileNet("a.pdf") < 0

====
